---------------------------- MODULE Spec2Model ----------------------------
(***************************************************************************)
(* rlmdb: a Rust layer over the LMDB storage engine.                       *)
(*                                                                         *)
(* The layer (src/src/txn.rs, dbenv.rs, db.rs, error.rs) is modelled from  *)
(* its source.  The engine it calls (mdb_txn_begin, mdb_get, ...) is not   *)
(* part of the source tree; its operations are modelled as pure operators  *)
(* over the record `eng`, following the engine contract the specification  *)
(* describes (single writer, snapshot readers, nested write transactions). *)
(*                                                                         *)
(* Callers are threads of control, each with its own DBEnv value on the    *)
(* same data file (DBEnv and Transaction hold a NonNull pointer, so the    *)
(* values themselves never cross threads).                                 *)
(***************************************************************************)
EXTENDS Integers, Sequences, FiniteSets, TLC

(***************************************************************************)
(* Bounds of the model.                                                    *)
(***************************************************************************)
\* engine transaction handles a run may allocate
MaxTxns == 3
\* reader slots configured for the environment (set_max_readers)
MaxReaders == 1

\* callers (threads), each with its own DBEnv on the same path
Callers == {1, 2}
Handles == 1..MaxTxns
\* the null pointer / "no transaction"
NULL == 0

(***************************************************************************)
(* Byte buffers.  Keys and values are byte sequences; the engine stores    *)
(* non-empty keys only.                                                    *)
(***************************************************************************)
StoredKeys == {<<1>>, <<2>>}
KeyInputs == {<< >>} \cup StoredKeys
ValInputs == {<< >>, <<7, 8>>}

\* Option<T> as a sequence of length 0 or 1
None == << >>
Some(x) == <<x>>

EmptyStore == [k \in StoredKeys |-> None]

(***************************************************************************)
(* Engine status codes (lmdb.h, through the generated bindings).           *)
(***************************************************************************)
MDB_SUCCESS == 0
MDB_KEYEXIST == -30799
MDB_NOTFOUND == -30798
MDB_PAGE_NOTFOUND == -30797
MDB_CORRUPTED == -30796
MDB_PANIC == -30795
MDB_VERSION_MISMATCH == -30794
MDB_INVALID == -30793
MDB_MAP_FULL == -30792
MDB_DBS_FULL == -30791
MDB_READERS_FULL == -30790
MDB_TLS_FULL == -30789
MDB_TXN_FULL == -30788
MDB_CURSOR_FULL == -30787
MDB_PAGE_FULL == -30786
MDB_MAP_RESIZED == -30785
MDB_INCOMPATIBLE == -30784
MDB_BAD_RSLOT == -30783
MDB_BAD_TXN == -30782
MDB_BAD_VALSIZE == -30781
MDB_BAD_DBI == -30780
\* errno values the engine returns for misuse
EACCES == 13
EINVAL == 22
\* the id of the default (unnamed) table
MAIN_DBI == 1
\* the dbi the engine gives the one named table of the model
NAMED_DBI == 2

(***************************************************************************)
(* error.rs: LMDBError and from_mdb_error.                                 *)
(***************************************************************************)
NoError == [kind |-> "", variant |-> "", raw |-> 0]
MDBError(v) == [kind |-> "MDB", variant |-> v, raw |-> 0]
IoError(kindName, code) == [kind |-> "Io", variant |-> kindName, raw |-> code]

Ok(x) == [ok |-> TRUE, val |-> x, err |-> NoError]
Err(e) == [ok |-> FALSE, val |-> None, err |-> e]

\* a conversion that knows no engine code
from_mdb_error_Lossy(err_code) ==
    IF err_code = MDB_SUCCESS THEN Ok(None)
    ELSE Err(IoError("Os", err_code))
\* LMDBError::from_mdb_error
from_mdb_error(err_code) ==
    IF err_code = MDB_SUCCESS THEN Ok(None)
    ELSE CASE err_code = MDB_KEYEXIST -> Err(MDBError("KeyExists"))
           [] err_code = MDB_NOTFOUND -> Err(MDBError("NotFound"))
           [] err_code = MDB_PAGE_NOTFOUND -> Err(MDBError("PageNotFound"))
           [] err_code = MDB_CORRUPTED -> Err(MDBError("Corrupted"))
           [] err_code = MDB_PANIC -> Err(MDBError("Panic"))
           [] err_code = MDB_VERSION_MISMATCH -> Err(MDBError("VersionMismatch"))
           [] err_code = MDB_INVALID -> Err(MDBError("Invalid"))
           [] err_code = MDB_MAP_FULL -> Err(MDBError("MapFull"))
           [] err_code = MDB_DBS_FULL -> Err(MDBError("DbsFull"))
           [] err_code = MDB_READERS_FULL -> Err(MDBError("ReadersFull"))
           [] err_code = MDB_TLS_FULL -> Err(MDBError("TlsFull"))
           [] err_code = MDB_TXN_FULL -> Err(MDBError("TxnFull"))
           [] err_code = MDB_CURSOR_FULL -> Err(MDBError("CursorFull"))
           [] err_code = MDB_PAGE_FULL -> Err(MDBError("PageFull"))
           [] err_code = MDB_MAP_RESIZED -> Err(MDBError("MapResized"))
           [] err_code = MDB_INCOMPATIBLE -> Err(MDBError("Incompatible"))
           [] err_code = MDB_BAD_RSLOT -> Err(MDBError("BadRslot"))
           [] err_code = MDB_BAD_TXN -> Err(MDBError("BadTxn"))
           [] err_code = MDB_BAD_VALSIZE -> Err(MDBError("BadValSize"))
           [] err_code = MDB_BAD_DBI -> Err(MDBError("BadDbi"))
           [] OTHER -> Err(IoError("Os", err_code))

(***************************************************************************)
(* The engine: state and operations.                                       *)
(***************************************************************************)
\* the records of every table, none stored
EmptyData == [d \in {MAIN_DBI, NAMED_DBI} |-> EmptyStore]

NoEngTxn ==
    [st |-> "unused", rdonly |-> FALSE, parent |-> NULL, child |-> NULL,
     view |-> EmptyData]

\* the named table: its name, whether it exists in the data file, the
\* flags it was created with, whether its dbi is open in the environment,
\* and the transaction (if any) whose end decides an open or a creation not
\* yet committed
NoNamed ==
    [name |-> << >>, exists |-> FALSE, flags |-> {}, dbi |-> "closed",
     pend |-> NULL, created |-> FALSE]

EngineInit ==
    [committed |-> EmptyData,
     txn |-> [h \in Handles |-> NoEngTxn],
     wmutex |-> 0,
     nalloc |-> 0,
     maxdbs |-> 0,
     named |-> NoNamed]

\* (pointer, length) pair handed to the engine
MDB_val(size, data) == [mv_size |-> size, mv_data |-> data]
\* the bytes the engine reads through an MDB_val
ValBytes(v) == SubSeq(v.mv_data, 1, v.mv_size)

LiveReaders(e) == {h \in Handles : e.txn[h].st = "live" /\ e.txn[h].rdonly}

RECURSIVE Deepest(_, _)
\* the innermost live descendant of h (h itself when it has no child)
Deepest(e, h) ==
    IF e.txn[h].child = NULL THEN h ELSE Deepest(e, e.txn[h].child)

RECURSIVE Chain(_, _)
\* h and all its live descendants
Chain(e, h) ==
    IF e.txn[h].child = NULL THEN {h} ELSE {h} \cup Chain(e, e.txn[h].child)

\* the transaction ends: it and its descendants are finished, the parent is
\* unblocked, a root writer gives the writer mutex back
EndTxn(e, h, newCommitted, newParentView) ==
    LET p == e.txn[h].parent
        gone == Chain(e, h)
    IN [e EXCEPT
          !.txn = [x \in Handles |->
                     IF x \in gone THEN [NoEngTxn EXCEPT !.st = "done"]
                     ELSE IF x = p THEN [e.txn[x] EXCEPT !.child = NULL,
                                                         !.view = newParentView]
                     ELSE e.txn[x]],
          !.committed = newCommitted,
          !.wmutex = IF p = NULL /\ ~e.txn[h].rdonly THEN 0 ELSE e.wmutex]

\* a call on a handle the engine has already released is undefined behaviour:
\* here the outcome in which the stale handle is recognised and refused
UseAfterRelease(e) == [e |-> e, ret |-> MDB_BAD_TXN]

mdb_txn_begin(e, t, parent, flags) ==
    LET h == e.nalloc + 1
        rdonly == "MDB_RDONLY" \in flags
        fresh(view, par) ==
            [st |-> "live", rdonly |-> rdonly, parent |-> par, child |-> NULL,
             view |-> view]
    IN IF parent # NULL
       THEN IF e.txn[parent].st # "live"
            THEN UseAfterRelease(e) @@ [txn_ptr |-> NULL]
            ELSE IF e.txn[parent].rdonly
            THEN [e |-> e, ret |-> EINVAL, txn_ptr |-> NULL]
            ELSE IF rdonly \/ e.txn[parent].child # NULL
            THEN [e |-> e, ret |-> MDB_BAD_TXN, txn_ptr |-> NULL]
            ELSE [e |-> [e EXCEPT !.txn[h] = fresh(e.txn[parent].view, parent),
                                  !.txn[parent].child = h,
                                  !.nalloc = h],
                  ret |-> MDB_SUCCESS, txn_ptr |-> h]
       ELSE IF rdonly
       THEN IF Cardinality(LiveReaders(e)) >= MaxReaders
            THEN [e |-> e, ret |-> MDB_READERS_FULL, txn_ptr |-> NULL]
            ELSE [e |-> [e EXCEPT !.txn[h] = fresh(e.committed, NULL),
                                  !.nalloc = h],
                  ret |-> MDB_SUCCESS, txn_ptr |-> h]
       ELSE \* a root writer: the caller has waited for the writer mutex
            [e |-> [e EXCEPT !.txn[h] = fresh(e.committed, NULL),
                             !.wmutex = t,
                             !.nalloc = h],
             ret |-> MDB_SUCCESS, txn_ptr |-> h]

\* the named table after transaction h (with its descendants) was aborted:
\* a dbi it opened is closed, a table it created is gone
NamedAfterAbort(e, h) ==
    IF e.named.pend \in Chain(e, h)
    THEN IF e.named.created THEN NoNamed
         ELSE [e.named EXCEPT !.dbi = "closed", !.pend = NULL]
    ELSE e.named

\* the named table after transaction h was committed: what it opened or
\* created is kept, by its parent if it has one
NamedAfterCommit(e, h) ==
    IF e.named.pend \in Chain(e, h)
    THEN IF e.txn[h].parent # NULL
         THEN [e.named EXCEPT !.pend = e.txn[h].parent]
         ELSE [e.named EXCEPT !.pend = NULL, !.created = FALSE, !.exists = TRUE]
    ELSE e.named

mdb_txn_commit(e, h, fail) ==
    IF e.txn[h].st # "live" THEN UseAfterRelease(e)
    ELSE IF fail
    THEN \* a failed commit aborts the transaction
         [e |-> [EndTxn(e, h, e.committed,
                        IF e.txn[h].parent = NULL THEN EmptyData
                        ELSE e.txn[e.txn[h].parent].view)
                 EXCEPT !.named = NamedAfterAbort(e, h)],
          ret |-> MDB_MAP_FULL]
    ELSE LET v == e.txn[Deepest(e, h)].view
         IN [e |-> [EndTxn(e, h,
                           IF e.txn[h].parent = NULL /\ ~e.txn[h].rdonly
                           THEN v ELSE e.committed,
                           v)
                    EXCEPT !.named = NamedAfterCommit(e, h)],
             ret |-> MDB_SUCCESS]

mdb_txn_abort(e, h) ==
    IF e.txn[h].st # "live" THEN UseAfterRelease(e)
    ELSE [e |-> [EndTxn(e, h, e.committed,
                        IF e.txn[h].parent = NULL THEN EmptyData
                        ELSE e.txn[e.txn[h].parent].view)
                 EXCEPT !.named = NamedAfterAbort(e, h)],
          ret |-> MDB_SUCCESS]

\* the flags that are a property of the table, as opposed to the call
TableFlags(flags) == flags \ {"MDB_CREATE"}

\* dbi is a handle the environment of e has open
ValidDbi(e, dbi) ==
    dbi = MAIN_DBI \/ (dbi = NAMED_DBI /\ e.named.dbi = "open")

\* the string the engine reads at a char pointer: the bytes before the
\* first null byte
RECURSIVE CStr(_)
CStr(bytes) ==
    IF bytes = << >> \/ Head(bytes) = 0 THEN << >>
    ELSE <<Head(bytes)>> \o CStr(Tail(bytes))

\* the environment has room for one named table
mdb_dbi_open(e, h, name, flags) ==
    IF e.txn[h].st # "live" THEN UseAfterRelease(e) @@ [dbi |-> 0]
    ELSE IF e.txn[h].child # NULL
    THEN [e |-> e, ret |-> MDB_BAD_TXN, dbi |-> 0]
    ELSE IF name = None
    THEN [e |-> e, ret |-> MDB_SUCCESS, dbi |-> MAIN_DBI]
    ELSE IF (e.named.exists \/ e.named.created)
            /\ e.named.name # CStr(name[1])
    THEN \* another table has the one slot, or is to be created next to it
         IF "MDB_CREATE" \notin flags
         THEN [e |-> e, ret |-> MDB_NOTFOUND, dbi |-> 0]
         ELSE [e |-> e, ret |-> MDB_DBS_FULL, dbi |-> 0]
    ELSE IF e.named.exists \/ e.named.created
    THEN \* the table is there: the flags must be those it was created with
         IF TableFlags(flags) # e.named.flags
         THEN [e |-> e, ret |-> MDB_INCOMPATIBLE, dbi |-> 0]
         ELSE IF e.named.dbi = "open"
         THEN [e |-> e, ret |-> MDB_SUCCESS, dbi |-> NAMED_DBI]
         ELSE IF e.maxdbs = 0
         THEN [e |-> e, ret |-> MDB_DBS_FULL, dbi |-> 0]
         ELSE [e |-> [e EXCEPT !.named.dbi = "open", !.named.pend = h],
               ret |-> MDB_SUCCESS, dbi |-> NAMED_DBI]
    ELSE IF "MDB_CREATE" \notin flags
    THEN [e |-> e, ret |-> MDB_NOTFOUND, dbi |-> 0]
    ELSE IF e.txn[h].rdonly
    THEN [e |-> e, ret |-> EACCES, dbi |-> 0]
    ELSE IF e.maxdbs = 0
    THEN [e |-> e, ret |-> MDB_DBS_FULL, dbi |-> 0]
    ELSE [e |-> [e EXCEPT !.named = [name |-> CStr(name[1]),
                                     exists |-> FALSE,
                                     flags |-> TableFlags(flags),
                                     dbi |-> "open", pend |-> h,
                                     created |-> TRUE]],
          ret |-> MDB_SUCCESS, dbi |-> NAMED_DBI]

mdb_get(e, h, dbi, key) ==
    LET nodata == MDB_val(0, << >>)
    IN IF e.txn[h].st # "live" THEN UseAfterRelease(e) @@ [data |-> nodata]
       ELSE IF ~ValidDbi(e, dbi) THEN [e |-> e, ret |-> EINVAL, data |-> nodata]
       ELSE IF e.txn[h].child # NULL
       THEN [e |-> e, ret |-> MDB_BAD_TXN, data |-> nodata]
       ELSE IF key.mv_size = 0
       THEN [e |-> e, ret |-> MDB_BAD_VALSIZE, data |-> nodata]
       ELSE LET rec == e.txn[h].view[dbi][ValBytes(key)]
            IN IF rec = None
               THEN [e |-> e, ret |-> MDB_NOTFOUND, data |-> nodata]
               ELSE [e |-> e, ret |-> MDB_SUCCESS,
                     data |-> MDB_val(Len(rec[1]), rec[1])]

mdb_put(e, h, dbi, key, data, flags) ==
    IF e.txn[h].st # "live" THEN UseAfterRelease(e)
    ELSE IF ~ValidDbi(e, dbi) THEN [e |-> e, ret |-> EINVAL]
    ELSE IF e.txn[h].rdonly THEN [e |-> e, ret |-> EACCES]
    ELSE IF e.txn[h].child # NULL THEN [e |-> e, ret |-> MDB_BAD_TXN]
    ELSE IF key.mv_size = 0 THEN [e |-> e, ret |-> MDB_BAD_VALSIZE]
    ELSE IF "MDB_NOOVERWRITE" \in flags
            /\ e.txn[h].view[dbi][ValBytes(key)] # None
    THEN [e |-> e, ret |-> MDB_KEYEXIST]
    ELSE [e |-> [e EXCEPT !.txn[h].view[dbi][ValBytes(key)] =
                              Some(ValBytes(data))],
          ret |-> MDB_SUCCESS]

mdb_del(e, h, dbi, key, data) ==
    IF e.txn[h].st # "live" THEN UseAfterRelease(e)
    ELSE IF ~ValidDbi(e, dbi) THEN [e |-> e, ret |-> EINVAL]
    ELSE IF e.txn[h].rdonly THEN [e |-> e, ret |-> EACCES]
    ELSE IF e.txn[h].child # NULL THEN [e |-> e, ret |-> MDB_BAD_TXN]
    ELSE IF key.mv_size = 0 THEN [e |-> e, ret |-> MDB_BAD_VALSIZE]
    ELSE IF e.txn[h].view[dbi][ValBytes(key)] = None
    THEN [e |-> e, ret |-> MDB_NOTFOUND]
    ELSE [e |-> [e EXCEPT !.txn[h].view[dbi][ValBytes(key)] = None],
          ret |-> MDB_SUCCESS]

(***************************************************************************)
(* State of the program.                                                   *)
(***************************************************************************)
VARIABLES
    eng,      \* the engine: committed data, transaction handles, writer mutex
    envs,     \* envs[t]: caller t's DBEnv value (open or not)
    txns,     \* txns[v]: the Transaction value holding handle v
    dbs,      \* dbs[t]: the Database handle caller t holds (None or Some)
    pc,       \* pc[t]: "idle", or "begin_txn" while t waits inside begin_txn
    rel,      \* rel[h]: engine release calls the layer issued on handle h
    late,     \* an engine call was issued through a consumed Transaction
    durable,  \* the records the successful put/delete/commit results promise
    crashed,  \* the process died in undefined behaviour
    bld,      \* a DBEnvBuilder value
    run,      \* the last operation run against an engine that answers
              \* anything: the engine calls it made and what it returned
    denv,     \* denv[s]: the DBEnv value in variable s of a caller that
              \* holds two, with the state of its engine handle
    dtxn,     \* dtxn[s]: the Transaction begun from DBEnv s, if one is alive
    ddb,      \* ddb[i]: what open_db / open_named_db returned into variable i
    cross     \* a Database was handed to the engine on a transaction of an
              \* environment other than its own

txnvars == <<eng, envs, txns, dbs, pc, rel, late, durable, crashed>>
callvars == <<bld, run>>
dbvars == <<denv, dtxn, ddb, cross>>
\* the variables the transaction operations leave alone
others == <<callvars, dbvars>>
vars == <<txnvars, others>>

\* what get answers for each key when nothing is stored
NothingSeen == [k \in StoredKeys |-> Err(MDBError("NotFound"))]

\* ptr and txn_type are the fields of struct Transaction; the rest records
\* the value's history: its state, the caller holding it, its parent, the
\* status its release call returned, whether it was aborted or dropped
\* with changes of its own (wrote), what a fresh transaction read when it
\* began (seen) and the records its successful puts and deletes promise
\* (expect)
NoTxn ==
    [state |-> "None", ptr |-> NULL, txn_type |-> "ReadWrite", thread |-> 0,
     parent |-> NULL, ret |-> MDB_SUCCESS, wrote |-> FALSE,
     seen |-> NothingSeen, expect |-> EmptyStore]

\* DBEnvBuilder::new
DBEnvBuilder_new(path) ==
    [db_path |-> path, file_mode |-> None, map_size |-> None,
     max_readers |-> None, max_dbs |-> None]

\* no operation run yet
NoRun ==
    [op |-> "", b |-> DBEnvBuilder_new(<< >>), code |-> 0, calls |-> << >>,
     res |-> Ok(None)]

\* the caller's DBEnv variables and Database variables
EnvIds == {1, 2}
DbSlots == {1, 2}

\* a DBEnv variable before open: st is "none", "open" or "dropped", eng the
\* engine's state for the handle, closes the mdb_env_close calls made on
\* it, stale whether an engine call reached it after the close, badid
\* whether get, put or delete handed it a dbi that was not open
NoEnv ==
    [st |-> "none", eng |-> EngineInit, closes |-> 0, stale |-> FALSE,
     badid |-> FALSE]

Init ==
    /\ bld = DBEnvBuilder_new(<<47, 100>>)
    /\ run = NoRun
    /\ denv = [s \in EnvIds |-> NoEnv]
    /\ dtxn = [s \in EnvIds |-> None]
    /\ ddb = [i \in DbSlots |-> None]
    /\ cross = FALSE
    /\ eng = EngineInit
    /\ envs = [t \in Callers |-> [open |-> FALSE]]
    /\ txns = [v \in Handles |-> NoTxn]
    /\ dbs = [t \in Callers |-> None]
    /\ pc = [t \in Callers |-> "idle"]
    /\ rel = [h \in Handles |-> [commit |-> 0, abort |-> 0]]
    /\ late = FALSE
    /\ durable = EmptyStore
    /\ crashed = FALSE

(***************************************************************************)
(* txn.rs: the Transaction operations, as functions of the engine state.   *)
(***************************************************************************)
\* the two transaction types mixed up
TxnBeginFlags_Swapped(txn_type) ==
    IF txn_type = "ReadOnly" THEN {} ELSE {"MDB_RDONLY"}
\* every transaction begun without MDB_RDONLY
TxnBeginFlags_NoRdonly(txn_type) == {}
\* TransactionFlags handed to mdb_txn_begin for a transaction type
TxnBeginFlags(txn_type) ==
    IF txn_type = "ReadOnly" THEN {"MDB_RDONLY"} ELSE {}

\* Transaction::new after mdb_txn_begin answered r: propagate the status,
\* reject a null handle, build the value
new_result(r, txn_type) ==
    LET chk == from_mdb_error(r.ret)
    IN IF ~chk.ok THEN Err(chk.err)
       ELSE IF r.txn_ptr = NULL THEN Err(IoError("Other", 0))
       ELSE Ok(Some([ptr |-> r.txn_ptr, txn_type |-> txn_type]))

\* Transaction::new: begin, then new_result
Transaction_new(e, t, parent, txn_type) ==
    LET flags == TxnBeginFlags(txn_type)
        parent_ptr == IF parent = None THEN NULL ELSE txns[parent[1]].ptr
        r == mdb_txn_begin(e, t, parent_ptr, flags)
    IN [e |-> r.e, res |-> new_result(r, txn_type)]

\* the MDB_val built for a key or a value: its length and its bytes
ToMdbVal(bytes) == MDB_val(Len(bytes), bytes)

\* a slice one byte short of mv_size
FromMdbVal_Short(data) == SubSeq(data.mv_data, 1, data.mv_size - 1)
\* slice::from_raw_parts(data.mv_data, data.mv_size), copied by V::from
FromMdbVal(data) == SubSeq(data.mv_data, 1, data.mv_size)

\* put that passes no flag bits to the engine
PutFlagBits_None(flags) == {}
\* PutFlags handed to mdb_put: flags.unwrap_or(PutFlags::default()).bits()
PutFlagBits(flags) == IF flags = None THEN {} ELSE flags[1]

\* Transaction::get after mdb_get answered r
get_result(r) ==
    LET chk == from_mdb_error(r.ret)
    IN IF ~chk.ok THEN Err(chk.err) ELSE Ok(Some(FromMdbVal(r.data)))

\* Transaction::get
Transaction_get(e, ptr, db, key) ==
    LET r == mdb_get(e, ptr, db.raw_dbi, ToMdbVal(key))
    IN [e |-> r.e, res |-> get_result(r)]

\* a call whose status is dropped
status_result_Ok(r) == Ok(None)
\* put, delete, commit and sync after the engine answered r: the status,
\* converted, is the result
status_result(r) == from_mdb_error(r.ret)

\* Transaction::put
Transaction_put(e, ptr, db, key, data, flags) ==
    LET r == mdb_put(e, ptr, db.raw_dbi, ToMdbVal(key), ToMdbVal(data),
                     PutFlagBits(flags))
    IN [e |-> r.e, res |-> status_result(r)]

\* a delete that drops the engine's status
Transaction_delete_Swallow(e, ptr, db, key, data) ==
    [e |-> mdb_del(e, ptr, db.raw_dbi, ToMdbVal(key), None).e, res |-> Ok(None)]
\* Transaction::delete
Transaction_delete(e, ptr, db, key, data) ==
    LET data_ptr == IF data = None THEN None ELSE Some(ToMdbVal(data[1]))
        r == mdb_del(e, ptr, db.raw_dbi, ToMdbVal(key), data_ptr)
    IN [e |-> r.e, res |-> status_result(r)]

Range(f) == {f[i] : i \in DOMAIN f}

\* a name conversion that lets every name through
NameCStr_Unchecked(name) == Ok(name)
\* CString::new on the name, if one is given: a name that holds a null byte
\* is refused as invalid input
NameCStr(name) ==
    IF name # None /\ 0 \in Range(name[1])
    THEN Err(IoError("InvalidInput", 0))
    ELSE Ok(name)

\* an open that always asks for the default flags
DbFlagBits_Default(flags) == {"MDB_CREATE"}
\* flags.unwrap_or(DBFlags::default()).bits()
DbFlagBits(flags) == IF flags = None THEN {"MDB_CREATE"} ELSE flags[1]

\* open_db_internal after mdb_dbi_open answered r
open_db_result(r, name_cstr) ==
    LET chk == from_mdb_error(r.ret)
    IN IF ~chk.ok THEN Err(chk.err)
       ELSE Ok(Some([raw_dbi |-> r.dbi, db_name |-> name_cstr]))

\* DBEnv::open_db_internal; ncalls counts the engine calls it made
DBEnv_open_db_internal(e, ptr, name, flags) ==
    LET bits == DbFlagBits(flags)
        name_cstr == NameCStr(name)
    IN IF ~name_cstr.ok
       THEN [e |-> e, res |-> Err(name_cstr.err), ncalls |-> 0]
       ELSE LET r == mdb_dbi_open(e, ptr, name_cstr.val, bits)
            IN [e |-> r.e, res |-> open_db_result(r, name_cstr.val),
                ncalls |-> 1]

\* DBEnv::open_db -> open_db_internal with no name
DBEnv_open_db(e, ptr, flags) == DBEnv_open_db_internal(e, ptr, None, flags)

\* DBEnv::open_named_db -> open_db_internal with the name
DBEnv_open_named_db(e, ptr, name, flags) ==
    DBEnv_open_db_internal(e, ptr, Some(name), flags)

(***************************************************************************)
(* dbenv.rs: DBEnvBuilder, as a function of the engine's answers.          *)
(***************************************************************************)
\* the status-returning engine calls of DBEnvBuilder::open
EnvCalls ==
    {"mdb_env_create", "mdb_env_set_mapsize", "mdb_env_set_maxreaders",
     "mdb_env_set_maxdbs", "mdb_env_open"}

\* one engine call as the layer issued it: the function, its integer and
\* flag arguments, the status it returned and the handle it wrote
Call(fn, arg, flags, ret, out) ==
    [fn |-> fn, arg |-> arg, flags |-> flags, ret |-> ret, out |-> out]

\* a call of DBEnvBuilder::open under the answers ans
EnvCall(fn, arg, flags, ans) ==
    Call(fn, arg, flags, ans.ret[fn],
         IF fn = "mdb_env_create" THEN ans.env_ptr ELSE NULL)

\* CString::new on the path
PathCStr(path) ==
    IF 0 \in Range(path) THEN Err(IoError("InvalidInput", 0))
    ELSE Ok(Some(path))

\* flags.unwrap_or_else(|| EnvFlags::default()).bits()
EnvFlagBits(flags) == IF flags = None THEN {"MDB_NOSUBDIR"} ELSE flags[1]

\* a usize, as its four 16-bit digits, the lowest first
Usize(n) == <<n % 65536, n \div 65536, 0, 0>>
\* `x as u32` on a usize: the low 32 bits
AsU32(x) == <<x[1], x[2]>>

\* the mode mdb_env_open gets when the builder has none: 0o644
DefaultFileMode == 420

\* every configuration call, whether or not the builder has the value
ConfigCalls_Always(b) ==
    <<[fn |-> "mdb_env_set_mapsize", arg |-> Usize(0)],
      [fn |-> "mdb_env_set_maxreaders", arg |-> AsU32(Usize(0))],
      [fn |-> "mdb_env_set_maxdbs", arg |-> AsU32(Usize(0))]>>
\* the configuration calls of open, in the order of its `if let` blocks
ConfigCalls(b) ==
    (IF b.map_size # None
     THEN <<[fn |-> "mdb_env_set_mapsize", arg |-> b.map_size[1]]>>
     ELSE << >>)
    \o (IF b.max_readers # None
        THEN <<[fn |-> "mdb_env_set_maxreaders",
                arg |-> AsU32(b.max_readers[1])]>>
        ELSE << >>)
    \o (IF b.max_dbs # None
        THEN <<[fn |-> "mdb_env_set_maxdbs", arg |-> AsU32(b.max_dbs[1])]>>
        ELSE << >>)

\* the configuration calls cs issued one after the other; a `?` on a failed
\* status ends the sequence
RECURSIVE RunConfig(_, _)
RunConfig(cs, ans) ==
    IF cs = << >> THEN << >>
    ELSE LET c == EnvCall(Head(cs).fn, Head(cs).arg, {}, ans)
         IN IF ~status_result(c).ok THEN <<c>>
            ELSE <<c>> \o RunConfig(Tail(cs), ans)

\* a DBEnv that goes without closing its handle
DBEnv_drop_calls_None == << >>
\* Drop for DBEnv
DBEnv_drop_calls == <<Call("mdb_env_close", << >>, {}, MDB_SUCCESS, NULL)>>

\* DBEnvBuilder::open: the engine calls it issues and its result
DBEnvBuilder_open(b, flags, ans) ==
    LET bits == EnvFlagBits(flags)
        path_cstr == PathCStr(b.db_path)
        create == EnvCall("mdb_env_create", << >>, {}, ans)
        config == RunConfig(ConfigCalls(b), ans)
        file_mode == IF b.file_mode = None THEN DefaultFileMode
                     ELSE b.file_mode[1]
        open == EnvCall("mdb_env_open", AsU32(Usize(file_mode)), bits, ans)
    IN IF ~path_cstr.ok THEN [calls |-> << >>, res |-> Err(path_cstr.err)]
       ELSE IF ~status_result(create).ok
       THEN [calls |-> <<create>>, res |-> Err(status_result(create).err)]
       ELSE IF create.out = NULL
       THEN [calls |-> <<create>>, res |-> Err(IoError("Other", 0))]
       ELSE IF config # << >> /\ ~status_result(config[Len(config)]).ok
       THEN [calls |-> <<create>> \o config,
             res |-> Err(status_result(config[Len(config)]).err)]
       ELSE IF ~status_result(open).ok
       THEN \* env is dropped on the way out
            [calls |-> <<create>> \o config \o <<open>> \o DBEnv_drop_calls,
             res |-> Err(status_result(open).err)]
       ELSE [calls |-> <<create>> \o config \o <<open>>,
             res |-> Ok(Some([ptr |-> create.out]))]

(***************************************************************************)
(* The release calls each way of ending a Transaction value makes.         *)
(***************************************************************************)
\* commit(self) without the forget: Drop runs on the consumed value as well
CommitCalls_NoForget == <<"mdb_txn_commit", "mdb_txn_abort">>
\* commit(self): takes the pointer, commits, then forgets self: Drop never runs
CommitCalls == <<"mdb_txn_commit">>
\* an abort that commits
AbortCalls_Commit == <<"mdb_txn_commit">>
\* abort(self) without the forget: Drop aborts the handle a second time
AbortCalls_NoForget == <<"mdb_txn_abort", "mdb_txn_abort">>
\* abort(self): takes the pointer, aborts, then forgets self
AbortCalls == <<"mdb_txn_abort">>
\* a Drop that commits what is left open
DropCalls_Commit == <<"mdb_txn_commit">>
\* Drop for a Transaction nobody consumed
DropCalls == <<"mdb_txn_abort">>

\* one release call issued on handle h; s carries the engine, the log of
\* release calls, the state of the Transaction value when the operation
\* began, the number of calls made so far and the first call's status
IssueRelease(s, call, h, fail) ==
    LET r == IF call = "mdb_txn_commit" THEN mdb_txn_commit(s.e, h, fail)
             ELSE mdb_txn_abort(s.e, h)
    IN [e |-> r.e,
        rel |-> IF call = "mdb_txn_commit"
                THEN [s.rel EXCEPT ![h].commit = @ + 1]
                ELSE [s.rel EXCEPT ![h].abort = @ + 1],
        late |-> s.late \/ s.state # "Active" \/ s.n > 0,
        state |-> s.state,
        ret |-> IF s.n = 0 THEN r.ret ELSE s.ret,
        n |-> s.n + 1]

RECURSIVE RunCalls(_, _, _, _)
RunCalls(s, calls, h, fail) ==
    IF calls = << >> THEN s
    ELSE RunCalls(IssueRelease(s, Head(calls), h, fail), Tail(calls), h, fail)

Release(calls, v, fail) ==
    RunCalls([e |-> eng, rel |-> rel, late |-> late, state |-> txns[v].state,
              ret |-> MDB_SUCCESS, n |-> 0],
             calls, txns[v].ptr, fail)

(***************************************************************************)
(* Actions: one per operation of the layer.                                *)
(***************************************************************************)
\* what Rust's ownership lets caller t do with Transaction value v
Owns(t, v) ==
    /\ ~crashed
    /\ pc[t] = "idle"
    /\ txns[v].state = "Active"
    /\ txns[v].thread = t

\* a call on a released handle either returns or kills the process
CrashOutcome(ptr) ==
    crashed' \in (IF eng.txn[ptr].st # "live" THEN {FALSE, TRUE} ELSE {FALSE})

\* the Database value open_db returns for the default table
DefaultDb == [raw_dbi |-> MAIN_DBI, db_name |-> None]

\* what get(db, key) returns in a transaction begun now, on engine state e,
\* by a caller with nothing else open
ProbeGet(e, key) ==
    LET idle == [EngineInit EXCEPT !.committed = e.committed]
        b == Transaction_new(idle, 1, None, "ReadOnly")
    IN Transaction_get(b.e, b.res.val[1].ptr, DefaultDb, key).res

\* the Transaction value built by a successful Transaction::new
NewTransaction(val, t, parent) ==
    [state |-> "Active", ptr |-> val.ptr, txn_type |-> val.txn_type,
     thread |-> t, parent |-> parent, ret |-> MDB_SUCCESS, wrote |-> FALSE,
     seen |-> IF parent = NULL THEN [k \in StoredKeys |-> ProbeGet(eng, k)]
              ELSE txns[parent].seen,
     expect |-> IF parent = NULL THEN durable ELSE txns[parent].expect]

\* begin a transaction, root (parent = None) or nested, and record the result
Begin(t, parent, txn_type) ==
    LET r == Transaction_new(eng, t, parent, txn_type)
        p == IF parent = None THEN NULL ELSE parent[1]
    IN /\ eng' = r.e
       /\ txns' = IF r.res.ok
                  THEN [txns EXCEPT ![r.res.val[1].ptr] =
                                       NewTransaction(r.res.val[1], t, p)]
                  ELSE txns


\* handles the calls that are inside begin_txn will still need
Waiting == {t \in Callers : pc[t] = "begin_txn"}

\* DBEnvBuilder::open
Open(t) ==
    /\ ~crashed
    /\ pc[t] = "idle"
    /\ ~envs[t].open
    /\ envs' = [envs EXCEPT ![t].open = TRUE]
    /\ UNCHANGED <<others, eng, txns, dbs, pc, rel, late, durable, crashed>>

\* Drop for DBEnv: every Transaction and Database borrowed from it is gone
DBEnv_drop(t) ==
    /\ ~crashed
    /\ pc[t] = "idle"
    /\ envs[t].open
    /\ \A v \in Handles : ~(txns[v].state = "Active" /\ txns[v].thread = t)
    /\ envs' = [envs EXCEPT ![t].open = FALSE]
    /\ dbs' = [dbs EXCEPT ![t] = None]
    /\ UNCHANGED <<others, eng, txns, pc, rel, late, durable, crashed>>

\* DBEnv::begin_txn, entered: the caller is now inside the call
BeginTxnCall(t) ==
    /\ ~crashed
    /\ pc[t] = "idle"
    /\ envs[t].open
    /\ eng.nalloc + Cardinality(Waiting) < MaxTxns
    /\ pc' = [pc EXCEPT ![t] = "begin_txn"]
    /\ UNCHANGED <<others, eng, envs, txns, dbs, rel, late, durable, crashed>>

\* DBEnv::begin_txn, returning: the engine hands out the writer mutex
BeginTxnReturn(t) ==
    /\ ~crashed
    /\ pc[t] = "begin_txn"
    /\ eng.wmutex = 0
    /\ Begin(t, None, "ReadWrite")
    /\ pc' = [pc EXCEPT ![t] = "idle"]
    /\ UNCHANGED <<others, envs, dbs, rel, late, durable, crashed>>

\* DBEnv::begin_txn_read_only
BeginTxnReadOnly(t) ==
    /\ ~crashed
    /\ pc[t] = "idle"
    /\ envs[t].open
    /\ eng.nalloc + Cardinality(Waiting) < MaxTxns
    /\ Begin(t, None, "ReadOnly")
    /\ UNCHANGED <<others, envs, dbs, pc, rel, late, durable, crashed>>

\* Transaction::new with a parent (crate-internal): a nested transaction
BeginChild(t, p, txn_type) ==
    /\ Owns(t, p)
    /\ eng.nalloc + Cardinality(Waiting) < MaxTxns
    /\ Begin(t, Some(p), txn_type)
    /\ CrashOutcome(txns[p].ptr)
    /\ UNCHANGED <<others, envs, dbs, pc, rel, late, durable>>

\* DBEnv::open_db
OpenDb(t, v) ==
    /\ Owns(t, v)
    /\ LET r == DBEnv_open_db(eng, txns[v].ptr, None)
       IN /\ eng' = r.e
          /\ dbs' = IF r.res.ok THEN [dbs EXCEPT ![t] = r.res.val] ELSE dbs
    /\ CrashOutcome(txns[v].ptr)
    /\ UNCHANGED <<others, envs, txns, pc, rel, late, durable>>

\* Transaction::get
Get(t, v, key) ==
    /\ Owns(t, v)
    /\ dbs[t] # None
    /\ LET r == Transaction_get(eng, txns[v].ptr, dbs[t][1], key)
       IN /\ eng' = r.e
    /\ CrashOutcome(txns[v].ptr)
    /\ UNCHANGED <<others, envs, txns, dbs, pc, rel, late, durable>>

\* Transaction::put
Put(t, v, key, data, flags) ==
    /\ Owns(t, v)
    /\ dbs[t] # None
    /\ LET r == Transaction_put(eng, txns[v].ptr, dbs[t][1], key, data, flags)
       IN /\ eng' = r.e
          /\ txns' = IF r.res.ok
                     THEN [txns EXCEPT ![v].expect[key] = Some(data)]
                     ELSE txns
    /\ CrashOutcome(txns[v].ptr)
    /\ UNCHANGED <<others, envs, dbs, pc, rel, late, durable>>

\* Transaction::delete
Delete(t, v, key, data) ==
    /\ Owns(t, v)
    /\ dbs[t] # None
    /\ LET r == Transaction_delete(eng, txns[v].ptr, dbs[t][1], key, data)
       IN /\ eng' = r.e
          /\ txns' = IF r.res.ok
                     THEN [txns EXCEPT ![v].expect[key] = None]
                     ELSE txns
    /\ CrashOutcome(txns[v].ptr)
    /\ UNCHANGED <<others, envs, dbs, pc, rel, late, durable>>

\* v's puts and deletes have changed what it began with
Wrote(v) ==
    txns[v].expect # (IF txns[v].parent = NULL THEN durable
                      ELSE txns[txns[v].parent].expect)

\* the end of Transaction value v through the release calls `calls`
End(v, calls, fail, newState) ==
    LET s == Release(calls, v, fail)
        ptr == txns[v].ptr
        p == txns[v].parent
        committed == Head(calls) = "mdb_txn_commit" /\ status_result(s).ok
        inner == Deepest(eng, ptr)
    IN /\ eng' = s.e
       /\ rel' = s.rel
       /\ late' = s.late
       /\ txns' = [x \in Handles |->
                     IF x = v
                     THEN [NoTxn EXCEPT !.state = newState,
                                        !.ptr = ptr,
                                        !.txn_type = txns[v].txn_type,
                                        !.parent = p,
                                        !.wrote = newState = "Aborted"
                                                  /\ Wrote(v),
                                        !.ret = s.ret]
                     ELSE IF x = p /\ committed
                     THEN [txns[x] EXCEPT !.expect = txns[inner].expect]
                     ELSE txns[x]]
       /\ durable' = IF committed /\ p = NULL /\ txns[v].txn_type = "ReadWrite"
                     THEN txns[inner].expect ELSE durable
       /\ CrashOutcome(ptr)

\* Transaction::commit
Commit(t, v, fail) ==
    /\ Owns(t, v)
    /\ fail => txns[v].txn_type = "ReadWrite"
    /\ End(v, CommitCalls, fail, "Committed")
    /\ UNCHANGED <<others, envs, dbs, pc>>

\* Transaction::abort
Abort(t, v) ==
    /\ Owns(t, v)
    /\ End(v, AbortCalls, FALSE, "Aborted")
    /\ UNCHANGED <<others, envs, dbs, pc>>

\* Drop for Transaction: the value goes out of scope unconsumed
Drop(t, v) ==
    /\ Owns(t, v)
    /\ End(v, DropCalls, FALSE, "Aborted")
    /\ UNCHANGED <<others, envs, dbs, pc>>

PutFlagInputs == {None, Some({"MDB_NOOVERWRITE"})}

\* the caller that holds Transaction value v
Holder(v) == {t \in Callers : txns[v].thread = t}

Next ==
    \/ \E t \in Callers : Open(t)
    \/ \E t \in Callers : DBEnv_drop(t)
    \/ \E t \in Callers : BeginTxnCall(t)
    \/ \E t \in Callers : BeginTxnReturn(t)
    \/ \E t \in Callers : BeginTxnReadOnly(t)
    \/ \E p \in Handles : \E t \in Holder(p), ty \in {"ReadOnly", "ReadWrite"} :
          BeginChild(t, p, ty)
    \/ \E v \in Handles : \E t \in Holder(v) : OpenDb(t, v)
    \/ \E v \in Handles : \E t \in Holder(v), k \in KeyInputs : Get(t, v, k)
    \/ \E v \in Handles : \E t \in Holder(v), k \in KeyInputs, d \in ValInputs,
          f \in PutFlagInputs : Put(t, v, k, d, f)
    \/ \E v \in Handles : \E t \in Holder(v), k \in KeyInputs,
          d \in {None, Some(<<7, 8>>)} : Delete(t, v, k, d)
    \/ \E v \in Handles : \E t \in Holder(v), fail \in BOOLEAN : Commit(t, v, fail)
    \/ \E v \in Handles : \E t \in Holder(v) : Abort(t, v)
    \/ \E v \in Handles : \E t \in Holder(v) : Drop(t, v)

Spec == Init /\ [][Next]_vars

(***************************************************************************)
(* The operations run one at a time against an engine that may answer      *)
(* any status.                                                             *)
(***************************************************************************)
\* the 20 status codes of the engine's own
KnownCodes ==
    {MDB_KEYEXIST, MDB_NOTFOUND, MDB_PAGE_NOTFOUND, MDB_CORRUPTED, MDB_PANIC,
     MDB_VERSION_MISMATCH, MDB_INVALID, MDB_MAP_FULL, MDB_DBS_FULL,
     MDB_READERS_FULL, MDB_TLS_FULL, MDB_TXN_FULL, MDB_CURSOR_FULL,
     MDB_PAGE_FULL, MDB_MAP_RESIZED, MDB_INCOMPATIBLE, MDB_BAD_RSLOT,
     MDB_BAD_TXN, MDB_BAD_VALSIZE, MDB_BAD_DBI}

\* the statuses a call of the other operations is made to return
CallStatusInputs == {MDB_SUCCESS, MDB_NOTFOUND, MDB_MAP_FULL, EACCES}

\* the answers of the engine to one DBEnvBuilder::open: the call failAt (if
\* it is one of the calls) returns status, the others succeed, and
\* mdb_env_create writes env_ptr
Answers(failAt, status, env_ptr) ==
    [ret |-> [fn \in EnvCalls |-> IF fn = failAt THEN status ELSE MDB_SUCCESS],
     env_ptr |-> env_ptr]

Ran(op, b, code, calls, res) ==
    [op |-> op, b |-> b, code |-> code, calls |-> calls, res |-> res]

NewBuilder(path) ==
    /\ bld' = DBEnvBuilder_new(path)
    /\ UNCHANGED <<txnvars, dbvars, run>>

\* DBEnvBuilder::set_file_mode
SetFileMode(mode) ==
    /\ bld' = [bld EXCEPT !.file_mode = Some(mode)]
    /\ UNCHANGED <<txnvars, dbvars, run>>

\* DBEnvBuilder::set_map_size
SetMapSize(size) ==
    /\ bld' = [bld EXCEPT !.map_size = Some(size)]
    /\ UNCHANGED <<txnvars, dbvars, run>>

\* DBEnvBuilder::set_max_readers
SetMaxReaders(max_readers) ==
    /\ bld' = [bld EXCEPT !.max_readers = Some(max_readers)]
    /\ UNCHANGED <<txnvars, dbvars, run>>

\* DBEnvBuilder::set_max_dbs
SetMaxDbs(max_dbs) ==
    /\ bld' = [bld EXCEPT !.max_dbs = Some(max_dbs)]
    /\ UNCHANGED <<txnvars, dbvars, run>>

\* DBEnvBuilder::open
BuilderOpen(flags, ans) ==
    /\ LET r == DBEnvBuilder_open(bld, flags, ans)
       IN run' = Ran("open", bld, 0, r.calls, r.res)
    /\ UNCHANGED <<txnvars, dbvars, bld>>

\* LMDBError::from_mdb_error
FromMdbError(err_code) ==
    /\ run' = Ran("from_mdb_error", NoRun.b, err_code, << >>,
                  from_mdb_error(err_code))
    /\ UNCHANGED <<txnvars, dbvars, bld>>

\* DBEnv::sync
SyncCall(ret) ==
    /\ LET c == Call("mdb_env_sync", << >>, {}, ret, NULL)
       IN run' = Ran("sync", NoRun.b, 0, <<c>>, status_result(c))
    /\ UNCHANGED <<txnvars, dbvars, bld>>

\* Transaction::new
BeginCall(txn_type, ret, txn_ptr) ==
    /\ LET c == Call("mdb_txn_begin", << >>, TxnBeginFlags(txn_type), ret, txn_ptr)
       IN run' = Ran("begin", NoRun.b, 0, <<c>>,
                     new_result([ret |-> ret, txn_ptr |-> txn_ptr], txn_type))
    /\ UNCHANGED <<txnvars, dbvars, bld>>

\* Transaction::commit
CommitCall(ret) ==
    /\ LET c == Call("mdb_txn_commit", << >>, {}, ret, NULL)
       IN run' = Ran("commit", NoRun.b, 0, <<c>>, status_result(c))
    /\ UNCHANGED <<txnvars, dbvars, bld>>

\* DBEnv::open_db
DbiOpenCall(flags, ret, dbi) ==
    /\ LET c == Call("mdb_dbi_open", << >>, DbFlagBits(flags), ret, dbi)
       IN run' = Ran("open_db", NoRun.b, 0, <<c>>,
                     open_db_result([ret |-> ret, dbi |-> dbi], None))
    /\ UNCHANGED <<txnvars, dbvars, bld>>

\* Transaction::get
GetCall(ret, data) ==
    /\ LET c == Call("mdb_get", << >>, {}, ret, NULL)
       IN run' = Ran("get", NoRun.b, 0, <<c>>,
                     get_result([ret |-> ret,
                                 data |-> MDB_val(Len(data), data)]))
    /\ UNCHANGED <<txnvars, dbvars, bld>>

\* Transaction::put
PutCall(flags, ret) ==
    /\ LET c == Call("mdb_put", << >>, PutFlagBits(flags), ret, NULL)
       IN run' = Ran("put", NoRun.b, 0, <<c>>, status_result(c))
    /\ UNCHANGED <<txnvars, dbvars, bld>>

\* Transaction::delete
DeleteCall(ret) ==
    /\ LET c == Call("mdb_del", << >>, {}, ret, NULL)
       IN run' = Ran("delete", NoRun.b, 0, <<c>>, status_result(c))
    /\ UNCHANGED <<txnvars, dbvars, bld>>

CallNext ==
    \* the paths "/d" and "/\0d"
    \/ \E path \in {<<47, 100>>, <<47, 0, 100>>} : NewBuilder(path)
    \/ \E mode \in {384} : SetFileMode(mode)
    \/ \E size \in {Usize(1048576)} : SetMapSize(size)
    \* 126, and 2^32 + 126
    \/ \E n \in {Usize(126), <<126, 0, 1, 0>>} : SetMaxReaders(n)
    \* 4, and 2^32 + 1
    \/ \E n \in {Usize(4), <<1, 0, 1, 0>>} : SetMaxDbs(n)
    \/ \E flags \in {None, Some({"MDB_RDONLY"})},
          failAt \in EnvCalls \cup {"none"}, status \in {MDB_INVALID, EACCES},
          env_ptr \in {NULL, 1} :
          BuilderOpen(flags, Answers(failAt, status, env_ptr))
    \* success, the known codes, their two neighbours, errno values and -1
    \/ \E err_code \in {MDB_SUCCESS} \cup KnownCodes
                         \cup {-30800, -30779, -1, 2, EACCES, EINVAL} :
          FromMdbError(err_code)
    \/ \E ret \in CallStatusInputs : SyncCall(ret)
    \/ \E ty \in {"ReadOnly", "ReadWrite"}, ret \in CallStatusInputs,
          txn_ptr \in {NULL, 1} : BeginCall(ty, ret, txn_ptr)
    \/ \E ret \in CallStatusInputs : CommitCall(ret)
    \/ \E flags \in {None, Some({})}, ret \in CallStatusInputs,
          dbi \in {0, MAIN_DBI} : DbiOpenCall(flags, ret, dbi)
    \/ \E ret \in CallStatusInputs, data \in ValInputs : GetCall(ret, data)
    \/ \E flags \in PutFlagInputs, ret \in CallStatusInputs : PutCall(flags, ret)
    \/ \E ret \in CallStatusInputs : DeleteCall(ret)

CallSpec == Init /\ [][CallNext]_vars

(***************************************************************************)
(* Environments, their transactions and their Database handles, in the     *)
(* hands of one caller.                                                    *)
(***************************************************************************)
\* the max-dbs value the engine was given by the calls cs
MaxDbsGiven(cs) ==
    LET at == {i \in DOMAIN cs : cs[i].fn = "mdb_env_set_maxdbs"}
        u == cs[CHOOSE i \in at : TRUE].arg
    IN IF at = {} THEN 0 ELSE u[1] + 65536 * u[2]

\* DBEnvBuilder::new(path), set_max_dbs if a value is given, open(None)
DOpen(s, max_dbs) ==
    /\ denv[s].st = "none"
    /\ LET b == [DBEnvBuilder_new(<<47, 100>>) EXCEPT !.max_dbs = max_dbs]
           r == DBEnvBuilder_open(b, None, Answers("none", MDB_SUCCESS, s))
       IN /\ r.res.ok
          /\ denv' = [denv EXCEPT
                         ![s] = [NoEnv EXCEPT
                                   !.st = "open",
                                   !.eng.maxdbs = MaxDbsGiven(r.calls)]]
    /\ UNCHANGED <<txnvars, callvars, dtxn, ddb, cross>>

\* the Database values that borrow DBEnv s
BorrowedDbs(s) == {i \in DbSlots : ddb[i] # None /\ ddb[i][1].res.ok
                                   /\ ddb[i][1].env = s}

\* Drop for DBEnv; the borrow rules let a DBEnv go only after every
\* Transaction and Database that borrows it
DDrop(s) ==
    /\ denv[s].st = "open"
    /\ dtxn[s] = None
    /\ BorrowedDbs(s) = {}
    /\ denv' = [denv EXCEPT
                   ![s].st = "dropped",
                   ![s].closes = @ + Len(DBEnv_drop_calls)]
    /\ UNCHANGED <<txnvars, callvars, dtxn, ddb, cross>>

\* the engine of environment u after a call on it
Called(u, e) ==
    [denv EXCEPT ![u].eng = e, ![u].stale = @ \/ denv[u].st # "open"]

\* DBEnv::begin_txn / begin_txn_read_only
DBegin(s, txn_type) ==
    /\ denv[s].st = "open"
    /\ dtxn[s] = None
    /\ denv[s].eng.nalloc < MaxTxns
    /\ LET r == Transaction_new(denv[s].eng, 1, None, txn_type)
       IN /\ denv' = Called(s, r.e)
          /\ dtxn' = [dtxn EXCEPT ![s] = r.res.val]
    /\ UNCHANGED <<txnvars, callvars, ddb, cross>>

\* Transaction::commit (calls = CommitCalls), abort or drop
DEnd(s, calls) ==
    /\ dtxn[s] # None
    /\ LET r == RunCalls([e |-> denv[s].eng, rel |-> rel, late |-> FALSE,
                          state |-> "Active", ret |-> MDB_SUCCESS, n |-> 0],
                         calls, dtxn[s][1].ptr, FALSE)
       IN denv' = Called(s, r.e)
    /\ dtxn' = [dtxn EXCEPT ![s] = None]
    /\ UNCHANGED <<txnvars, callvars, ddb, cross>>

\* db_i = s.open_db(&txn_u, flags) or s.open_named_db(&txn_u, name, flags):
\* the result, with the DBEnv it was called on (env), the environment of
\* the transaction (tenv), the name and the flag bits asked for, whether
\* the table was there with other flags, the engine calls made and
\* whether the engine's state stayed as it was
DOpenDb(s, u, i, name, flags) ==
    /\ denv[s].st = "open"
    /\ dtxn[u] # None
    /\ ddb[i] = None
    /\ LET e == denv[u].eng
           r == IF name = None
                THEN DBEnv_open_db(e, dtxn[u][1].ptr, flags)
                ELSE DBEnv_open_named_db(e, dtxn[u][1].ptr, name[1], flags)
           asked == IF flags = None THEN {"MDB_CREATE"} ELSE flags[1]
       IN /\ denv' = Called(u, r.e)
          /\ ddb' = [ddb EXCEPT
                        ![i] = Some([res |-> r.res, env |-> s, tenv |-> u,
                                     name |-> name, asked |-> asked,
                                     conflict |->
                                        /\ name # None
                                        /\ e.named.exists \/ e.named.created
                                        /\ e.named.name = name[1]
                                        /\ e.named.flags
                                              # asked \ {"MDB_CREATE"},
                                     ncalls |-> r.ncalls,
                                     same |-> r.e = e])]
    /\ UNCHANGED <<txnvars, callvars, dtxn, cross>>

\* the Result in variable i goes out of scope
DForget(i) ==
    /\ ddb[i] # None
    /\ ddb' = [ddb EXCEPT ![i] = None]
    /\ UNCHANGED <<txnvars, callvars, denv, dtxn, cross>>

\* the Database in variable i is used in the transaction of environment u
UsesDb(u, i) ==
    /\ dtxn[u] # None
    /\ ddb[i] # None
    /\ ddb[i][1].res.ok

\* the Database in variable i is not of environment u
Foreign(u, i) == ddb[i][1].env # u \/ ddb[i][1].tenv # u

\* the engine of environment u after a get, put or delete with the
\* Database in variable i: db.id() goes to the engine as it is
Used(u, i, e) ==
    [Called(u, e) EXCEPT
       ![u].badid = @ \/ ~ValidDbi(denv[u].eng, ddb[i][1].res.val[1].raw_dbi)]

\* txn_u.get(&db_i, key)
DGet(u, i) ==
    /\ UsesDb(u, i)
    /\ LET r == Transaction_get(denv[u].eng, dtxn[u][1].ptr,
                                ddb[i][1].res.val[1], <<1>>)
       IN denv' = Used(u, i, r.e)
    /\ cross' = (cross \/ Foreign(u, i))
    /\ UNCHANGED <<txnvars, callvars, dtxn, ddb>>

\* txn_u.put(&db_i, key, data, None)
DPut(u, i) ==
    /\ UsesDb(u, i)
    /\ LET r == Transaction_put(denv[u].eng, dtxn[u][1].ptr,
                                ddb[i][1].res.val[1], <<1>>, <<7, 8>>, None)
       IN denv' = Used(u, i, r.e)
    /\ cross' = (cross \/ Foreign(u, i))
    /\ UNCHANGED <<txnvars, callvars, dtxn, ddb>>

\* txn_u.delete(&db_i, key, None)
DDelete(u, i) ==
    /\ UsesDb(u, i)
    /\ LET r == Transaction_delete(denv[u].eng, dtxn[u][1].ptr,
                                   ddb[i][1].res.val[1], <<1>>, None)
       IN denv' = Used(u, i, r.e)
    /\ cross' = (cross \/ Foreign(u, i))
    /\ UNCHANGED <<txnvars, callvars, dtxn, ddb>>

\* two environments and the default table
EnvNext ==
    \/ \E s \in EnvIds : DOpen(s, None)
    \/ \E s \in EnvIds : DDrop(s)
    \/ \E s \in EnvIds, ty \in {"ReadOnly", "ReadWrite"} : DBegin(s, ty)
    \/ \E s \in EnvIds, calls \in {CommitCalls, AbortCalls, DropCalls} :
          DEnd(s, calls)
    \/ \E s \in EnvIds, u \in EnvIds, i \in DbSlots :
          DOpenDb(s, u, i, None, None)
    \/ \E i \in DbSlots : DForget(i)
    \/ \E u \in EnvIds, i \in DbSlots : DGet(u, i)
    \/ \E u \in EnvIds, i \in DbSlots : DPut(u, i)
    \/ \E u \in EnvIds, i \in DbSlots : DDelete(u, i)

EnvSpec == Init /\ [][EnvNext]_vars

\* one environment and its named tables
NamedNext ==
    \/ \E max_dbs \in {None, Some(Usize(1))} : DOpen(1, max_dbs)
    \/ DDrop(1)
    \/ \E ty \in {"ReadOnly", "ReadWrite"} : DBegin(1, ty)
    \/ \E calls \in {CommitCalls, AbortCalls, DropCalls} : DEnd(1, calls)
    \* no name, "a", "b" and "a\0b"
    \/ \E i \in DbSlots,
          name \in {None, Some(<<97>>), Some(<<98>>), Some(<<97, 0, 98>>)},
          flags \in {None, Some({}), Some({"MDB_CREATE", "MDB_DUPSORT"})} :
          DOpenDb(1, 1, i, name, flags)
    \/ \E i \in DbSlots : DForget(i)
    \/ \E i \in DbSlots : DGet(1, i)
    \/ \E i \in DbSlots : DPut(1, i)
    \/ \E i \in DbSlots : DDelete(1, i)

NamedSpec == Init /\ [][NamedNext]_vars

(***************************************************************************)
(* Vocabulary of the properties.                                           *)
(***************************************************************************)
Active(v) == txns[v].state = "Active"
\* v is Active and the engine transaction behind its handle is still open
EngLive(v) == Active(v) /\ eng.txn[txns[v].ptr].st = "live"
Root(v) == txns[v].parent = NULL
\* v can be read now: no unresolved child, and its caller holds a Database
Readable(v) ==
    /\ EngLive(v)
    /\ eng.txn[txns[v].ptr].child = NULL
    /\ dbs[txns[v].thread] # None
\* what v.get(db, key) returns now
GetNow(v, key) ==
    Transaction_get(eng, txns[v].ptr, dbs[txns[v].thread][1], key).res
ReleaseCalls(h) == rel[h].commit + rel[h].abort

(***************************************************************************)
(* Handle lifecycle.                                                       *)
(***************************************************************************)
\* C1: every handle a successful begin returned gets exactly one release
\* call: commit issues one commit call and nothing else, whatever the engine
\* answers; abort and drop issue one abort call; a Transaction still Active
\* has had none; a begin that failed (no Transaction value) issues none.
C1_ExactlyOneRelease ==
    \A h \in Handles :
        /\ ReleaseCalls(h) <= 1
        /\ txns[h].state \in {"None", "Active"} => ReleaseCalls(h) = 0
        /\ txns[h].state = "Committed" => rel[h].commit = 1 /\ rel[h].abort = 0
        /\ txns[h].state = "Aborted" => rel[h].commit = 0 /\ rel[h].abort = 1

\* a commit the engine refused and an abort, each released exactly once
C1_Witness ==
    \E a, b \in Handles :
        /\ txns[a].state = "Committed" /\ txns[a].ret = MDB_MAP_FULL
        /\ rel[a].commit = 1 /\ rel[a].abort = 0
        /\ txns[b].state = "Aborted" /\ rel[b].abort = 1

\* the only changes of state are None -> Active (a begin that succeeded),
\* Active -> Committed and Active -> Aborted
StateTransitions ==
    \A v \in Handles :
        txns'[v].state # txns[v].state =>
            \/ txns[v].state = "None" /\ txns'[v].state = "Active"
            \/ txns[v].state = "Active"
               /\ txns'[v].state \in {"Committed", "Aborted"}

Promised(x) ==
    IF x = None THEN Err(MDBError("NotFound")) ELSE Ok(Some(x[1]))

\* C3: once put(db, K, V) and the commit of its transaction succeeded,
\* get(db, K) in a read-only or read-write root transaction begun afterwards
\* returns Some(V), byte for byte, as long as no later committed put or
\* delete replaced K; the same holds for the transaction's own last put.
C3_CommittedPutIsRead ==
    \A v \in Handles : \A k \in StoredKeys :
        (Readable(v) /\ Root(v) /\ txns[v].expect[k] # None)
            => GetNow(v, k) = Ok(Some(txns[v].expect[k][1]))

\* a read-only transaction begun after the commit of put(K, <<7, 8>>)
C3_Witness ==
    \E v \in Handles : \E k \in StoredKeys :
        /\ Readable(v) /\ Root(v) /\ txns[v].txn_type = "ReadOnly"
        /\ durable[k] = Some(<<7, 8>>)
        /\ txns[v].expect[k] = Some(<<7, 8>>)
        /\ GetNow(v, k) = Ok(Some(<<7, 8>>))

\* C4 (refuted by the code): get of a key that holds no record returns
\* Ok(None), and get returns an error only for an engine status other than
\* success and not-found.
C4_MissingKeyIsNone ==
    \A v \in Handles :
        Readable(v) =>
            /\ \A k \in StoredKeys :
                  txns[v].expect[k] = None => GetNow(v, k) = Ok(None)
            /\ \A k \in KeyInputs :
                  ~GetNow(v, k).ok =>
                      mdb_get(eng, txns[v].ptr, MAIN_DBI, ToMdbVal(k)).ret
                          \notin {MDB_SUCCESS, MDB_NOTFOUND}

\* what the code does instead: the not-found status comes back as an error
C4_Witness ==
    \E v \in Handles : \E k \in StoredKeys :
        /\ Readable(v) /\ txns[v].expect[k] = None
        /\ mdb_get(eng, txns[v].ptr, MAIN_DBI, ToMdbVal(k)).ret = MDB_NOTFOUND
        /\ GetNow(v, k) = Err(MDBError("NotFound"))

RootWriter(v) == Root(v) /\ txns[v].txn_type = "ReadWrite"

\* C5: when a read-write root transaction ends by abort or by drop, a
\* transaction begun afterwards reads, for every key, what a transaction
\* begun just before the ended one started would have read.
C5_AbortLeavesCommitted ==
    [][\A v \in Handles :
          (Active(v) /\ RootWriter(v) /\ txns'[v].state = "Aborted")
              => \A k \in StoredKeys : ProbeGet(eng', k) = txns[v].seen[k]]_vars

\* an aborted or dropped root writer that had written, next to committed data
C5_Witness ==
    \E v \in Handles : \E k \in StoredKeys :
        /\ txns[v].state = "Aborted" /\ RootWriter(v) /\ txns[v].wrote
        /\ durable[k] = Some(<<7, 8>>)
        /\ ProbeGet(eng, k) = Ok(Some(<<7, 8>>))

\* v.put(db, key, data, MDB_NOOVERWRITE), applied to the current state
PutNoOverwrite(v, key, data) ==
    Transaction_put(eng, txns[v].ptr, dbs[txns[v].thread][1], key, data,
                    Some({"MDB_NOOVERWRITE"}))

\* C6: put with the no-overwrite flag on a key that already holds a value
\* returns the key-exists error and changes nothing: get still returns the
\* old value in the same transaction and, once that transaction commits, in
\* a transaction begun afterwards.
C6_NoOverwriteKeepsValue ==
    \A v \in Handles : \A k \in StoredKeys : \A d \in ValInputs :
        (Readable(v) /\ txns[v].txn_type = "ReadWrite" /\ GetNow(v, k).ok)
            => LET r == PutNoOverwrite(v, k, d)
                   db == dbs[txns[v].thread][1]
               IN /\ r.res = Err(MDBError("KeyExists"))
                  /\ Transaction_get(r.e, txns[v].ptr, db, k).res = GetNow(v, k)
                  /\ Root(v) =>
                        ProbeGet(mdb_txn_commit(r.e, txns[v].ptr, FALSE).e, k)
                            = GetNow(v, k)

\* a writer holding <<7, 8>> under a key, refused an empty value for it
C6_Witness ==
    \E v \in Handles : \E k \in StoredKeys :
        /\ Readable(v) /\ txns[v].txn_type = "ReadWrite"
        /\ GetNow(v, k) = Ok(Some(<<7, 8>>))
        /\ PutNoOverwrite(v, k, << >>).res = Err(MDBError("KeyExists"))
        /\ PutNoOverwrite(v, k, << >>).e = eng

(***************************************************************************)
(* Nested transactions.                                                    *)
(***************************************************************************)
\* what v.get(db, key) returns in the next state
GetNext(v, key) ==
    Transaction_get(eng', txns[v].ptr, dbs[txns[v].thread][1], key).res

\* child c, open in the engine under an open parent, with nothing nested in it
OpenChild(c) ==
    /\ EngLive(c)
    /\ ~Root(c)
    /\ EngLive(txns[c].parent)
    /\ eng.txn[txns[c].ptr].child = NULL
    /\ dbs[txns[c].thread] # None

\* this step is a commit the engine accepted, of a root writer
RootCommitStep ==
    \E v \in Handles :
        /\ Active(v) /\ RootWriter(v)
        /\ txns'[v].state = "Committed" /\ txns'[v].ret = MDB_SUCCESS

\* C7: aborting or dropping a child discards the child's writes and leaves
\* the parent's view as the parent's own writes made it; committing the
\* child puts its writes in the parent's view and changes nothing outside;
\* what a transaction begun outside reads changes only when a root writer
\* commits, and then it reads that transaction's view, folded children
\* included.
C7_ChildEndsInParent ==
    [][/\ \A c \in Handles : \A k \in StoredKeys :
            OpenChild(c) =>
              /\ txns'[c].state = "Aborted" =>
                    GetNext(txns[c].parent, k)
                        = Promised(txns[txns[c].parent].expect[k])
              /\ (txns'[c].state = "Committed" /\ txns'[c].ret = MDB_SUCCESS) =>
                    /\ GetNext(txns[c].parent, k) = Promised(txns[c].expect[k])
                    /\ ProbeGet(eng', k) = ProbeGet(eng, k)
       /\ (eng' # eng /\ ~RootCommitStep) =>
              \A k \in StoredKeys : ProbeGet(eng', k) = ProbeGet(eng, k)
       /\ \A v \in Handles : \A k \in StoredKeys :
            (Readable(v) /\ RootWriter(v) /\ txns'[v].state = "Committed"
             /\ txns'[v].ret = MDB_SUCCESS)
                => ProbeGet(eng', k) = Promised(txns[v].expect[k])]_vars

\* under one parent, a child aborted with writes of its own and a child
\* committed; the parent reads a record that is not committed outside
C7_Witness ==
    \E p, a, c \in Handles : \E k \in StoredKeys :
        /\ Readable(p) /\ RootWriter(p)
        /\ txns[a].state = "Aborted" /\ txns[a].parent = p /\ txns[a].wrote
        /\ txns[c].state = "Committed" /\ txns[c].parent = p
        /\ txns[c].ret = MDB_SUCCESS
        /\ GetNow(p, k) = Ok(Some(<<7, 8>>))
        /\ ProbeGet(eng, k) = Err(MDBError("NotFound"))

\* no transaction is aborted or dropped in this step
NoAbortStep ==
    \A x \in Handles : txns'[x].state = "Aborted" => txns[x].state = "Aborted"

\* C8 (refuted by the code): only a read-write transaction is a parent; a
\* parent has at most one Active child; while the child is Active no get,
\* put, delete, commit or new child on the parent takes effect: the parent
\* stays as it is until the child is committed or aborted.
C8_ParentWaitsForChild ==
    /\ [](\A c \in Handles :
             (Active(c) /\ ~Root(c))
                 => txns[txns[c].parent].txn_type = "ReadWrite")
    /\ [](\A p \in Handles :
             Cardinality({c \in Handles : EngLive(c) /\ txns[c].parent = p}) <= 1)
    /\ [][\A c \in Handles :
             (EngLive(c) /\ ~Root(c) /\ txns'[c].state = "Active" /\ NoAbortStep)
                 => /\ txns'[txns[c].parent] = txns[txns[c].parent]
                    /\ eng'.txn[txns[c].parent] = eng.txn[txns[c].parent]
                    /\ eng'.committed = eng.committed]_vars

\* what the code allows: the parent committed over its Active child, whose
\* Transaction value now holds a handle the engine has released
C8_Witness ==
    \E c \in Handles :
        /\ Active(c) /\ ~Root(c) /\ ~EngLive(c)
        /\ txns[txns[c].parent].state = "Committed"
        /\ txns[txns[c].parent].ret = MDB_SUCCESS
        /\ rel[c].commit + rel[c].abort = 0

(***************************************************************************)
(* Writers and readers.                                                    *)
(***************************************************************************)
ActiveWriters == {v \in Handles : Active(v) /\ RootWriter(v)}
ActiveReaders ==
    {v \in Handles : Active(v) /\ Root(v) /\ txns[v].txn_type = "ReadOnly"}

\* C9: at most one read-write root transaction is Active in an environment
\* at any instant, and at most as many read-only transactions as the
\* environment has reader slots.
C9_SingleWriter ==
    /\ Cardinality(ActiveWriters) <= 1
    /\ Cardinality(ActiveReaders) <= MaxReaders

\* a writer and a full set of readers, held by different callers, at once
C9_Witness ==
    /\ Cardinality(ActiveWriters) = 1
    /\ Cardinality(ActiveReaders) = MaxReaders
    /\ \E w \in ActiveWriters : \E r \in ActiveReaders :
          txns[w].thread # txns[r].thread

(***************************************************************************)
(* Progress of begin.                                                      *)
(***************************************************************************)
\* the holder of Transaction value v commits, aborts or drops it
FinishTxn(v) ==
    \E t \in Holder(v) : Commit(t, v, FALSE) \/ Abort(t, v) \/ Drop(t, v)

\* every Active transaction whose holder can run is eventually ended, and
\* the writer mutex, released again and again, is eventually handed to
\* each caller that waits for it
FairSpec ==
    /\ Spec
    /\ \A v \in Handles : WF_vars(FinishTxn(v))
    /\ \A t \in Callers : SF_vars(BeginTxnReturn(t))

\* C10 (refuted by the code): begin_txn_read_only with every reader slot in
\* use returns the readers-full error, and every call of begin_txn
\* eventually returns, also when the caller itself holds the Active
\* read-write transaction.
C10_BeginReturns ==
    /\ [](Cardinality(LiveReaders(eng)) >= MaxReaders =>
             \A t \in Callers :
                 Transaction_new(eng, t, None, "ReadOnly").res
                     = Err(MDBError("ReadersFull")))
    /\ \A t \in Callers : (pc[t] = "begin_txn") ~> (pc[t] = "idle" \/ crashed)

\* what the code allows: a caller inside begin_txn while the writer mutex
\* is held by its own Active read-write transaction
C10_Witness ==
    \E t \in Callers : \E v \in Handles :
        /\ pc[t] = "begin_txn"
        /\ eng.wmutex = t
        /\ Active(v) /\ RootWriter(v) /\ txns[v].thread = t
        /\ ~ENABLED BeginTxnReturn(t)
        /\ ~ENABLED FinishTxn(v)

(***************************************************************************)
(* Writes on read-only transactions; delete.                               *)
(***************************************************************************)
\* v is a read-only transaction whose caller holds a Database
ReadOnlyWithDb(v) ==
    /\ Active(v)
    /\ txns[v].txn_type = "ReadOnly"
    /\ dbs[txns[v].thread] # None

DeleteDataInputs == {None, Some(<< >>), Some(<<7, 8>>)}

\* v.put(db, key, data, flags) and v.delete(db, key, data), applied now
PutNow(v, key, data, flags) ==
    Transaction_put(eng, txns[v].ptr, dbs[txns[v].thread][1], key, data, flags)
DeleteNow(v, key, data) ==
    Transaction_delete(eng, txns[v].ptr, dbs[txns[v].thread][1], key, data)

\* C11: put and delete on a transaction from begin_txn_read_only always
\* return an error and leave the engine, and so what any transaction reads,
\* exactly as it was.
C11_ReadOnlyRefusesWrites ==
    \A v \in Handles :
        ReadOnlyWithDb(v) =>
            /\ \A k \in KeyInputs, d \in ValInputs, f \in PutFlagInputs :
                  ~PutNow(v, k, d, f).res.ok /\ PutNow(v, k, d, f).e = eng
            /\ \A k \in KeyInputs, d \in DeleteDataInputs :
                  ~DeleteNow(v, k, d).res.ok /\ DeleteNow(v, k, d).e = eng

\* a read-only transaction that reads a committed record and is refused
\* both a put over it and its delete
C11_Witness ==
    \E v \in Handles : \E k \in StoredKeys :
        /\ ReadOnlyWithDb(v)
        /\ GetNow(v, k) = Ok(Some(<<7, 8>>))
        /\ PutNow(v, k, << >>, None).res = Err(IoError("Os", EACCES))
        /\ DeleteNow(v, k, None).res = Err(IoError("Os", EACCES))

C16_FromMdbErrorTotal ==
    run.op = "from_mdb_error" =>
       LET table == << <<-30799, "KeyExists">>, <<-30798, "NotFound">>,
                       <<-30797, "PageNotFound">>, <<-30796, "Corrupted">>,
                       <<-30795, "Panic">>, <<-30794, "VersionMismatch">>,
                       <<-30793, "Invalid">>, <<-30792, "MapFull">>,
                       <<-30791, "DbsFull">>, <<-30790, "ReadersFull">>,
                       <<-30789, "TlsFull">>, <<-30788, "TxnFull">>,
                       <<-30787, "CursorFull">>, <<-30786, "PageFull">>,
                       <<-30785, "MapResized">>, <<-30784, "Incompatible">>,
                       <<-30783, "BadRslot">>, <<-30782, "BadTxn">>,
                       <<-30781, "BadValSize">>, <<-30780, "BadDbi">> >>
           codes == {table[i][1] : i \in DOMAIN table}
           names == {table[i][2] : i \in DOMAIN table}
       IN /\ Cardinality(codes) = 20 /\ Cardinality(names) = 20
          /\ run.code = 0 => run.res = Ok(None)
          /\ \A i \in DOMAIN table :
                run.code = table[i][1]
                   => run.res = Err([kind |-> "MDB", variant |-> table[i][2],
                                     raw |-> 0])
          /\ (run.code # 0 /\ run.code \notin codes)
                => run.res = Err([kind |-> "Io", variant |-> "Os",
                                  raw |-> run.code])

\* the conversion was given a code next to the engine's range and answered
\* with the I/O error carrying it
C16_Witness ==
    /\ run.op = "from_mdb_error"
    /\ run.code = -30779
    /\ ~run.res.ok /\ run.res.err.kind = "Io" /\ run.res.err.raw = -30779

\* C17: an operation whose engine call returned a non-zero status returns
\* an error, the one that stands for that status; it never returns success.
C17_StatusPropagated ==
    \A i \in DOMAIN run.calls :
       (run.calls[i].fn # "mdb_env_close" /\ run.calls[i].ret # MDB_SUCCESS)
          => /\ ~run.res.ok
             /\ run.res.val = None
             /\ IF run.calls[i].ret \in KnownCodes
                THEN run.res.err.kind = "MDB"
                ELSE run.res.err = [kind |-> "Io", variant |-> "Os",
                                    raw |-> run.calls[i].ret]

\* open with every value set failed in its last configuration call
C17_Witness ==
    /\ run.op = "open"
    /\ Len(run.calls) = 4
    /\ run.calls[4].fn = "mdb_env_set_maxdbs"
    /\ run.calls[4].ret = EACCES
    /\ ~run.res.ok

\* the place of each engine call in DBEnvBuilder::open
CallRank(fn) ==
    CASE fn = "mdb_env_create" -> 1
      [] fn = "mdb_env_set_mapsize" -> 2
      [] fn = "mdb_env_set_maxreaders" -> 3
      [] fn = "mdb_env_set_maxdbs" -> 4
      [] fn = "mdb_env_open" -> 5
      [] fn = "mdb_env_close" -> 6

\* the builder b has the value that configuration call fn hands over
HasValue(b, fn) ==
    CASE fn = "mdb_env_set_mapsize" -> b.map_size # None
      [] fn = "mdb_env_set_maxreaders" -> b.max_readers # None
      [] fn = "mdb_env_set_maxdbs" -> b.max_dbs # None

ConfigFns ==
    {"mdb_env_set_mapsize", "mdb_env_set_maxreaders", "mdb_env_set_maxdbs"}

\* C18: the engine calls of DBEnvBuilder::open come in the order creation,
\* set-map-size, set-max-readers, set-max-dbs, open; a configuration call
\* is issued only for a value the builder has, and a successful open has
\* issued one call for every value the builder has, between the creation
\* and the open.
C18_OpenCallOrder ==
    run.op = "open" =>
       LET fns == [i \in DOMAIN run.calls |-> run.calls[i].fn]
       IN /\ \A i, j \in DOMAIN fns :
                i < j => CallRank(fns[i]) < CallRank(fns[j])
          /\ fns # << >> => fns[1] = "mdb_env_create"
          /\ \A i \in DOMAIN fns :
                fns[i] \in ConfigFns => HasValue(run.b, fns[i])
          /\ \A i \in DOMAIN fns :
                fns[i] = "mdb_env_open"
                   => \A fn \in ConfigFns :
                         HasValue(run.b, fn) => fn \in Range(SubSeq(fns, 1, i - 1))
          /\ run.res.ok => fns[Len(fns)] = "mdb_env_open"

\* a successful open of a builder with the max-dbs value only
C18_Witness ==
    /\ run.op = "open"
    /\ run.res.ok
    /\ run.b.map_size = None /\ run.b.max_readers = None
    /\ run.b.max_dbs # None
    /\ Len(run.calls) = 3

\* the engine answered the creating call of the last operation with
\* success and a null handle
NullHandle ==
    /\ run.op \in {"open", "begin"}
    /\ run.calls # << >>
    /\ run.calls[1].fn \in {"mdb_env_create", "mdb_txn_begin"}
    /\ run.calls[1].ret = MDB_SUCCESS
    /\ run.calls[1].out = NULL

\* C19: when creation succeeds with a null handle, open and begin return
\* an error and no value, and the error is of a kind of its own, neither
\* an engine-status error nor an I/O error.
C19_NullHandleIsInvariantError ==
    NullHandle =>
       /\ ~run.res.ok
       /\ run.res.val = None
       /\ run.res.err.kind \notin {"MDB", "Io"}

\* mdb_env_create succeeded with a null handle and open stopped there
C19_Witness ==
    /\ NullHandle
    /\ run.op = "open"
    /\ Len(run.calls) = 1
    /\ ~run.res.ok

(***************************************************************************)
(* Environments and Database handles.                                      *)
(***************************************************************************)
\* C12: no get, put or delete hands a Database to the engine on a
\* transaction that belongs to another environment than the Database.
C12_NoForeignDatabaseUse == ~cross

\* with both environments open, a Database that DBEnv 1 returned for its
\* own transaction was used in the transaction of environment 2
C12_Witness ==
    /\ cross
    /\ \A s \in EnvIds : denv[s].st = "open"
    /\ dtxn[2] # None
    /\ \E i \in DbSlots :
          /\ ddb[i] # None /\ ddb[i][1].res.ok
          /\ ddb[i][1].env = 1 /\ ddb[i][1].tenv = 1

\* C13: mdb_env_close is called once on the handle of a DBEnv that was
\* dropped and not at all before; a dropped DBEnv has no Transaction
\* alive and no Database that borrows it, and no engine call reaches its
\* handle after the close.
C13_CloseOnceAtDrop ==
    \A s \in EnvIds :
       /\ denv[s].closes = IF denv[s].st = "dropped" THEN 1 ELSE 0
       /\ ~denv[s].stale
       /\ denv[s].st = "dropped" => dtxn[s] = None /\ BorrowedDbs(s) = {}

\* DBEnv 1 was dropped after a transaction on it, while DBEnv 2 is open with
\* a transaction and a Database of its own
C13_Witness ==
    /\ denv[1].st = "dropped"
    /\ denv[1].closes = 1
    /\ denv[1].eng.nalloc >= 1
    /\ denv[2].st = "open"
    /\ dtxn[2] # None
    /\ BorrowedDbs(2) # {}

\* the environment has a table of this name with these flags, committed
\* or created by the transaction that is open
TableThere(e, name, asked) ==
    /\ name # None
    /\ e.named.exists \/ e.named.created
    /\ e.named.name = name[1]
    /\ e.named.flags = asked \ {"MDB_CREATE"}

\* open_named_db returns into variable i
OpensInto(i) == ddb[i] = None /\ ddb'[i] # None

C15_NulNameRefused ==
    \A i \in DbSlots :
       (/\ ddb[i] # None
        /\ ddb[i][1].name # None
        /\ 0 \in Range(ddb[i][1].name[1]))
       => /\ ddb[i][1].res = Err([kind |-> "Io", variant |-> "InvalidInput",
                                  raw |-> 0])
          /\ ddb[i][1].ncalls = 0
          /\ ddb[i][1].same

\* a name with a null byte was refused in a transaction that could have
\* created the table: it is a writer and the environment has room
C15_Witness ==
    /\ dtxn[1] # None /\ dtxn[1][1].txn_type = "ReadWrite"
    /\ denv[1].eng.maxdbs > 0
    /\ ~denv[1].eng.named.exists /\ ~denv[1].eng.named.created
    /\ ddb[1] # None
    /\ ddb[1][1].name = Some(<<97, 0, 98>>)
    /\ ddb[1][1].asked = {"MDB_CREATE"}
    /\ ~ddb[1][1].res.ok

(***************************************************************************)
(* The environment handle inside DBEnvBuilder::open.                       *)
(***************************************************************************)
\* the mdb_env_close calls of the last operation
CloseCalls == {i \in DOMAIN run.calls : run.calls[i].fn = "mdb_env_close"}

\* mdb_env_create of the last open succeeded and wrote a handle
HandleCreated ==
    /\ run.op = "open"
    /\ run.calls # << >>
    /\ run.calls[1].fn = "mdb_env_create"
    /\ run.calls[1].ret = MDB_SUCCESS
    /\ run.calls[1].out # NULL

\* C21: a handle created inside open is either returned in the DBEnv, with
\* no close call, or closed by exactly one mdb_env_close call before open
\* returns its error; no close call is made without a handle.
C21_HandleReturnedOrClosed ==
    run.op = "open" =>
       Cardinality(CloseCalls) =
          IF HandleCreated /\ ~run.res.ok THEN 1 ELSE 0

\* mdb_env_set_maxdbs failed after the handle was created, and open returned
\* the error without a close call
C21_Witness ==
    /\ HandleCreated
    /\ ~run.res.ok
    /\ run.calls[Len(run.calls)].fn = "mdb_env_set_maxdbs"
    /\ run.calls[Len(run.calls)].ret # MDB_SUCCESS
    /\ CloseCalls = {}

(***************************************************************************)
(* Database handles across transactions.                                   *)
(***************************************************************************)
\* C22: get, put and delete hand the engine only ids that are open in the
\* environment of the transaction; the id of a table opened in a
\* transaction that was aborted or dropped does not reach the engine in a
\* later transaction.
C22_OnlyOpenIds == \A s \in EnvIds : ~denv[s].badid

\* the Database of a table created in the first transaction, which did
\* not commit, was used in the second transaction after its id was closed
C22_Witness ==
    /\ denv[1].badid
    /\ dtxn[1] # None /\ dtxn[1][1].ptr = 2
    /\ denv[1].eng.named.dbi = "closed"
    /\ \E i \in DbSlots :
          /\ ddb[i] # None /\ ddb[i][1].res.ok
          /\ ddb[i][1].name = Some(<<97>>)
          /\ ddb[i][1].res.val[1].raw_dbi = NAMED_DBI

(***************************************************************************)
(* The counts handed to the engine.                                        *)
(***************************************************************************)
\* C23: the count that open hands to mdb_env_set_maxreaders and to
\* mdb_env_set_maxdbs is the count set on the builder, also when that count
\* does not fit in 32 bits.
C23_ConfiguredCountHandedOver ==
    run.op = "open" =>
       \A i \in DOMAIN run.calls :
          LET c == run.calls[i]
              handed == <<c.arg[1], c.arg[2], 0, 0>>
          IN /\ c.fn = "mdb_env_set_maxreaders"
                  => handed = run.b.max_readers[1]
             /\ c.fn = "mdb_env_set_maxdbs" => handed = run.b.max_dbs[1]

\* a builder with max_dbs 2^32 + 1 was opened with success, and
\* mdb_env_set_maxdbs was handed 1
C23_Witness ==
    /\ run.op = "open"
    /\ run.res.ok
    /\ run.b.max_dbs = Some(<<1, 0, 1, 0>>)
    /\ \E i \in DOMAIN run.calls :
          /\ run.calls[i].fn = "mdb_env_set_maxdbs"
          /\ run.calls[i].arg = <<1, 0>>
=============================================================================
